---- MODULE Spec2Model ----
(***************************************************************************)
(* wg-meshconf, wg_meshconf/database_manager.py: the peer registry stored  *)
(* as a CSV file, the operations on it (init, addpeer, updatepeer,         *)
(* delpeer), the PSK assignment (calculate_psks) and the configuration     *)
(* generator (genconfig).                                                  *)
(*                                                                         *)
(* A Python str is a sequence of characters, each character a one-letter   *)
(* TLA+ string; a run of characters the code never looks into (a CIDR, a   *)
(* host name) is kept as one character.  A Python value is a record        *)
(* [t, s, l, n, b]: its type tag and the payload of that type.  A dict     *)
(* key that is missing and a key whose value is None are both read with    *)
(* .get() or written by csv.DictWriter as the empty cell; both are None    *)
(* here.  One action is one invocation of the tool: read, change, write.   *)
(***************************************************************************)
EXTENDS Integers, Sequences, FiniteSets, TLC

VARIABLES
    file,        \* the database file: [exists, rows], a row maps each column to its cell text
    genkeys,     \* how many keys WireGuard.genkey() has returned so far
    last,        \* the invocation that ran last: [op, Name, with_psk, status]
    written,     \* [called, data]: what the last invocation passed to write_database
    generated    \* [psk_tuples, inform, documents]: what the last genconfig produced

vars == <<file, genkeys, last, written, generated>>

-----------------------------------------------------------------------------
(* Bounds of the model *)

\* the operator of Spec uses this many peer names
MaxPeers == 2

\* the operator of PskSpec and MeshSpec adds at most this many peers
MaxMesh == 3

\* genkey() is called at most this many times in a behaviour
MaxKeys == 3

-----------------------------------------------------------------------------
(* Python str, list and int helpers *)

Digits == <<"0", "1", "2", "3", "4", "5", "6", "7", "8", "9">>

RECURSIVE IntToStr(_)
\* str(n) for an int n >= 0
IntToStr(n) ==
    IF n < 10 THEN <<Digits[n + 1]>>
    ELSE IntToStr(n \div 10) \o <<Digits[(n % 10) + 1]>>

DigitValue(c) == (CHOOSE i \in 1..10 : Digits[i] = c) - 1

RECURSIVE StrToInt(_)
\* int(s) for a str of decimal digits
StrToInt(s) ==
    IF Len(s) = 1 THEN DigitValue(s[1])
    ELSE 10 * StrToInt(SubSeq(s, 1, Len(s) - 1)) + DigitValue(s[Len(s)])

\* str.lower(), on the letters that occur
LowerChar(c) == CASE c = "T" -> "t" [] c = "F" -> "f" [] OTHER -> c

Lower(s) == [i \in 1..Len(s) |-> LowerChar(s[i])]

RECURSIVE Split(_)
\* s.split(","): "" splits into [""]
Split(s) ==
    IF \E i \in 1..Len(s) : s[i] = ","
    THEN LET i == CHOOSE j \in 1..Len(s) :
                      s[j] = "," /\ \A h \in 1..(j - 1) : s[h] # ","
         IN  <<SubSeq(s, 1, i - 1)>> \o Split(SubSeq(s, i + 1, Len(s)))
    ELSE <<s>>

RECURSIVE Join(_)
\* ",".join(l)
Join(l) ==
    IF Len(l) = 0 THEN <<>>
    ELSE IF Len(l) = 1 THEN l[1]
    ELSE l[1] \o <<",">> \o Join(Tail(l))

RECURSIVE Flatten(_)
\* the concatenation of a sequence of lists
Flatten(ls) == IF Len(ls) = 0 THEN <<>> ELSE ls[1] \o Flatten(Tail(ls))

Reverse(l) == [i \in 1..Len(l) |-> l[Len(l) + 1 - i]]

\* sum(range(n))
SumRange(n) == (n * (n - 1)) \div 2

-----------------------------------------------------------------------------
(* Python values *)

None == [t |-> "None", s |-> <<>>, l |-> <<>>, n |-> 0, b |-> FALSE]
PyStr(x) == [None EXCEPT !.t = "str", !.s = x]
PyList(x) == [None EXCEPT !.t = "list", !.l = x]
PyInt(x) == [None EXCEPT !.t = "int", !.n = x]
PyBool(x) == [None EXCEPT !.t = "bool", !.b = x]

\* bool(v): the truth value of v in an if
Truthy(v) ==
    CASE v.t = "None" -> FALSE
      [] v.t = "str" -> v.s # <<>>
      [] v.t = "list" -> v.l # <<>>
      [] v.t = "int" -> v.n # 0
      [] v.t = "bool" -> v.b

\* str(v) of an int or of a bool
StrOf(v) ==
    IF v.t = "bool"
    THEN (IF v.b THEN <<"T", "r", "u", "e">> ELSE <<"F", "a", "l", "s", "e">>)
    ELSE IntToStr(v.n)

\* WireGuard.genkey(): the k-th key it returns; no two calls return the same key
genkey(k) == <<"k">> \o IntToStr(k)

-----------------------------------------------------------------------------
(* The schema *)

INTERFACE_ATTRIBUTES ==
    <<"Address", "ListenPort", "FwMark", "PrivateKey", "DNS", "MTU", "Table",
      "PreUp", "PostUp", "PreDown", "PostDown", "SaveConfig">>

PEER_ATTRIBUTES ==
    <<"PublicKey", "PresharedKeys", "AllowedIPs", "Endpoint", "PersistentKeepalive">>

KEY_TYPE ==
    [Name |-> "str", Address |-> "list", Endpoint |-> "str", AllowedIPs |-> "list",
     ListenPort |-> "int", PersistentKeepalive |-> "int", FwMark |-> "str",
     PrivateKey |-> "str", PresharedKeys |-> "str", DNS |-> "str", MTU |-> "int",
     Table |-> "str", PreUp |-> "str", PostUp |-> "str", PreDown |-> "str",
     PostDown |-> "str", SaveConfig |-> "bool"]

\* KEY_TYPE.keys(): the columns of the file
Columns == DOMAIN KEY_TYPE

\* the keys of a peer's dict in memory: the Name is the registry's key
Attrs == Columns \ {"Name"}

\* the value ListenPort gets from init
DefaultListenPort == 51820

\* self.database_template: {"peers": {}}; the registry is the ordered dict,
\* a sequence of [Name, attrs]
database_template == <<>>

NoAttrs == [k \in Attrs |-> None]

Names(database) == [i \in 1..Len(database) |-> database[i].Name]

Has(database, name) == \E i \in 1..Len(database) : database[i].Name = name

IndexOf(database, name) == CHOOSE i \in 1..Len(database) : database[i].Name = name

\* database["peers"][name]
Peer(database, name) == database[IndexOf(database, name)].attrs

\* database["peers"][name] = attrs: a new key goes last, a known key keeps its place
DictSet(database, name, attrs) ==
    IF Has(database, name)
    THEN [database EXCEPT ![IndexOf(database, name)].attrs = attrs]
    ELSE Append(database, [Name |-> name, attrs |-> attrs])

\* database["peers"].pop(name, None)
DictPop(database, name) ==
    LET keep == {i \in 1..Len(database) : database[i].Name # name}
        nth(j) == CHOOSE i \in keep : Cardinality({h \in keep : h < i}) = j - 1
    IN  [j \in 1..Cardinality(keep) |-> database[nth(j)]]

-----------------------------------------------------------------------------
(* read_database and write_database *)

\* lines 155-163: one cell of a row, typed by its column
ReadCell(key, cell) ==
    IF cell = <<>> THEN None
    ELSE IF KEY_TYPE[key] = "list" THEN PyList(Split(cell))
    ELSE IF KEY_TYPE[key] = "int" THEN PyInt(StrToInt(cell))
    ELSE IF KEY_TYPE[key] = "bool" THEN PyBool(Lower(cell) = <<"t", "r", "u", "e">>)
    ELSE PyStr(cell)

RECURSIVE ReadRows(_, _, _)
\* lines 154-164: the rows in file order, each stored under its Name
ReadRows(rows, i, database) ==
    IF i > Len(rows) THEN database
    ELSE ReadRows(rows, i + 1,
                  DictSet(database, rows[i]["Name"],
                          [k \in Attrs |-> ReadCell(k, rows[i][k])]))

read_database(f) ==
    IF ~f.exists THEN database_template
    ELSE ReadRows(f.rows, 1, database_template)

\* lines 186-191 and csv.DictWriter: the text of one value. A bool is an int to
\* isinstance, so the int branch writes it; None is written as the empty cell
WriteCell(v) ==
    IF v.t = "list" THEN Join(v.l)
    ELSE IF v.t = "int" \/ v.t = "bool" THEN StrOf(v)
    ELSE IF v.t = "None" THEN <<>>
    ELSE v.s

write_database(data) ==
    [exists |-> TRUE,
     rows |-> [i \in 1..Len(data) |->
                 [k \in Columns |->
                    IF k = "Name" THEN data[i].Name ELSE WriteCell(data[i].attrs[k])]]]

-----------------------------------------------------------------------------
(* What an invocation leaves behind *)

NotWritten == [called |-> FALSE, data |-> <<>>]
Written(data) == [called |-> TRUE, data |-> data]

NothingGenerated == [psk_tuples |-> <<>>, inform |-> 0, documents |-> <<>>]

Ran(op, name, with_psk, status) ==
    [op |-> op, Name |-> name, with_psk |-> with_psk, status |-> status]

\* the invocation refuses or fails: nothing is written
Abort(op, name, with_psk, status) ==
    /\ last' = Ran(op, name, with_psk, status)
    /\ written' = NotWritten
    /\ generated' = NothingGenerated
    /\ UNCHANGED <<file, genkeys>>

\* the invocation ends with self.write_database(database)
Save(op, name, with_psk, database, k) ==
    /\ last' = Ran(op, name, with_psk, "ok")
    /\ written' = Written(database)
    /\ file' = write_database(database)
    /\ genkeys' = k
    /\ generated' = NothingGenerated

-----------------------------------------------------------------------------
(* addpeer, updatepeer, delpeer *)

Range(s) == {s[i] : i \in 1..Len(s)}

\* the keys the loops of addpeer and updatepeer go through
Settable == Range(INTERFACE_ATTRIBUTES) \union Range(PEER_ATTRIBUTES)

\* lines 227-229 and 259-261: every argument that is not None is stored
Supplied(attrs, args) ==
    [k \in Attrs |-> IF k \in Settable /\ args[k] # None THEN args[k] ELSE attrs[k]]

\* lines 220-229: the new peer's dict
NewPeer(args, k) ==
    LET fresh == IF args["PrivateKey"] = None
                 THEN [NoAttrs EXCEPT !["PrivateKey"] = PyStr(genkey(k + 1))]
                 ELSE NoAttrs
    IN  Supplied(fresh, args)

addpeer(Name, args) ==
    LET database == read_database(file)
        k == IF args["PrivateKey"] = None THEN genkeys + 1 ELSE genkeys
    IN  IF Has(database, Name)
        THEN Abort("addpeer", PyStr(Name), FALSE, "exists")
        ELSE /\ k <= MaxKeys
             /\ Save("addpeer", PyStr(Name), FALSE,
                     DictSet(database, Name, NewPeer(args, genkeys)), k)

updatepeer(Name, args) ==
    LET database == read_database(file)
    IN  IF ~Has(database, Name)
        THEN Abort("updatepeer", PyStr(Name), FALSE, "missing")
        ELSE Save("updatepeer", PyStr(Name), FALSE,
                  DictSet(database, Name, Supplied(Peer(database, Name), args)),
                  genkeys)

delpeer(Name) ==
    LET database == read_database(file)
    IN  IF ~Has(database, Name)
        THEN Abort("delpeer", PyStr(Name), FALSE, "missing")
        ELSE Save("delpeer", PyStr(Name), FALSE, DictPop(database, Name), genkeys)

-----------------------------------------------------------------------------
(* init *)

Max(a, b) == IF a > b THEN a ELSE b
Min(a, b) == IF a < b THEN a ELSE b

\* len(v.split(",")) of a PresharedKeys value that is not None
SplitLen(v) == Len(Split(v.s))

RECURSIVE PresentPsks(_, _)
\* lines 110-114: the keys the peers from the i-th on already hold
PresentPsks(database, i) ==
    IF i > Len(database) THEN 0
    ELSE (IF Truthy(database[i].attrs["PresharedKeys"])
          THEN SplitLen(database[i].attrs["PresharedKeys"]) ELSE 0)
         + PresentPsks(database, i + 1)

\* a mutant of psk_needed: the keys the peers already hold are not subtracted
psk_needed_total(database) == SumRange(Len(database))

\* lines 109-114: range(psk_needed) is empty when psk_needed is negative
psk_needed(database) == SumRange(Len(database)) - PresentPsks(database, 1)

\* lines 115-117: the keys genkey() returns after the k-th
additional_keys(database, k) ==
    [j \in 1..Max(0, psk_needed(database)) |-> genkey(k + j)]

\* a mutant of FillPsks: peer_needed keys are added whatever the peer holds
FillPsks_ignoring_held(attrs, peer_needed, additional) ==
    LET presharedkeys ==
            IF attrs["PresharedKeys"] # None
            THEN Split(attrs["PresharedKeys"].s) ELSE <<>>
        take == Min(Max(0, peer_needed), Len(additional))
    IN  [presharedkeys |->
             presharedkeys \o [j \in 1..take |-> additional[Len(additional) + 1 - j]],
         additional |-> SubSeq(additional, 1, Len(additional) - take)]

\* a mutant of FillPsks: the new keys are put before the keys the peer holds
FillPsks_prepend(attrs, peer_needed, additional) ==
    LET presharedkeys ==
            IF attrs["PresharedKeys"] # None
            THEN Split(attrs["PresharedKeys"].s) ELSE <<>>
        take == Min(Max(0, peer_needed - Len(presharedkeys)), Len(additional))
    IN  [presharedkeys |->
             [j \in 1..take |-> additional[Len(additional) + 1 - j]] \o presharedkeys,
         additional |-> SubSeq(additional, 1, Len(additional) - take)]

\* lines 129-138: the peer's PresharedKeys after the pass, and the keys left over.
\* pop() takes the key generated last
FillPsks(attrs, peer_needed, additional) ==
    LET presharedkeys ==
            IF attrs["PresharedKeys"] # None
            THEN Split(attrs["PresharedKeys"].s) ELSE <<>>
        take == Min(Max(0, peer_needed - Len(presharedkeys)), Len(additional))
    IN  [presharedkeys |->
             presharedkeys \o [j \in 1..take |-> additional[Len(additional) + 1 - j]],
         additional |-> SubSeq(additional, 1, Len(additional) - take)]

RECURSIVE InitPeers(_, _, _, _, _)
\* lines 119-138: counter is enumerate's index, the peer is database[counter + 1]
InitPeers(database, with_psk, counter, additional, k) ==
    IF counter >= Len(database) THEN [database |-> database, genkeys |-> k]
    ELSE LET a0 == database[counter + 1].attrs
             a1 == IF a0["ListenPort"] = None
                   THEN [a0 EXCEPT !["ListenPort"] = PyInt(DefaultListenPort)] ELSE a0
             nokey == a1["PrivateKey"] = None
             a2 == IF nokey
                   THEN [a1 EXCEPT !["PrivateKey"] = PyStr(genkey(k + 1))] ELSE a1
             fill == FillPsks(a2, Len(database) - 1 - counter, additional)
             a3 == IF with_psk
                   THEN [a2 EXCEPT !["PresharedKeys"] = PyList(fill.presharedkeys)]
                   ELSE a2
         IN  InitPeers([database EXCEPT ![counter + 1].attrs = a3], with_psk,
                       counter + 1,
                       IF with_psk THEN fill.additional ELSE additional,
                       IF nokey THEN k + 1 ELSE k)

\* a mutant of LacksAddress: the check is left out
LacksAddress_unchecked(database) == FALSE

\* lines 100-104: some peer has no Address
LacksAddress(database) ==
    \E i \in 1..Len(database) : database[i].attrs["Address"] = None

\* lines 106-138: the registry init hands to write_database, and the keys used
InitDatabase(database, with_psk, k) ==
    LET additional == IF with_psk THEN additional_keys(database, k) ELSE <<>>
    IN  InitPeers(database, with_psk, 0, additional, k + Len(additional))

init(with_psk) ==
    IF ~file.exists
    THEN \* lines 87-95: the header alone; write_database is not called
         /\ file' = [exists |-> TRUE, rows |-> <<>>]
         /\ last' = Ran("init", None, with_psk, "created")
         /\ written' = NotWritten
         /\ generated' = NothingGenerated
         /\ UNCHANGED genkeys
    ELSE LET database == read_database(file)
             r == InitDatabase(database, with_psk, genkeys)
         IN  IF LacksAddress(database)
             THEN Abort("init", None, with_psk, "exit")
             ELSE /\ r.genkeys <= MaxKeys
                  /\ Save("init", None, with_psk, r.database, r.genkeys)

-----------------------------------------------------------------------------
(* calculate_psks *)

\* a mutant of combinations: each peer with the next one only
combinations_adjacent(peers) ==
    [i \in 1..(Len(peers) - 1) |-> <<peers[i], peers[i + 1]>>]

\* itertools.combinations(peers, r=2)
combinations(peers) ==
    Flatten([i \in 1..Len(peers) |->
               [j \in 1..(Len(peers) - i) |-> <<peers[i], peers[i + j]>>]])

RECURSIVE PooledKeys(_, _, _)
\* lines 344-346: the inventories of the peers from the i-th on, in order
PooledKeys(peers, database, i) ==
    IF i > Len(peers) THEN <<>>
    ELSE (IF Peer(database, peers[i])["PresharedKeys"] # None
          THEN Split(Peer(database, peers[i])["PresharedKeys"].s) ELSE <<>>)
         \o PooledKeys(peers, database, i + 1)

RECURSIVE AssignPsks_keep(_, _, _, _, _, _)
\* a mutant of AssignPsks: the key is read and not popped
AssignPsks_keep(combs, i, psk_keys, inform, k, psk_tuples) ==
    IF i > Len(combs)
    THEN [psk_tuples |-> psk_tuples, inform |-> inform, genkeys |-> k, raised |-> FALSE]
    ELSE IF psk_keys # <<>>
    THEN AssignPsks_keep(combs, i + 1, psk_keys, inform, k,
                         Append(psk_tuples, combs[i] \o <<psk_keys[Len(psk_keys)]>>))
    ELSE AssignPsks_keep(combs, i + 1, psk_keys, inform + 1, k + 1,
                         Append(psk_tuples, combs[i] \o <<genkey(k + 1)>>))

RECURSIVE AssignPsks(_, _, _, _, _, _)
\* lines 350-356: psk_keys is the reversed pool, pop() takes its last element
AssignPsks(combs, i, psk_keys, inform, k, psk_tuples) ==
    IF i > Len(combs)
    THEN [psk_tuples |-> psk_tuples, inform |-> inform, genkeys |-> k, raised |-> FALSE]
    ELSE IF psk_keys # <<>>
    THEN AssignPsks(combs, i + 1, SubSeq(psk_keys, 1, Len(psk_keys) - 1), inform, k,
                    Append(psk_tuples, combs[i] \o <<psk_keys[Len(psk_keys)]>>))
    ELSE AssignPsks(combs, i + 1, psk_keys, inform + 1, k + 1,
                    Append(psk_tuples, combs[i] \o <<genkey(k + 1)>>))

\* a mutant of calculate_psks: psk_keys is not reversed
calculate_psks_unreversed(peers, database, k) ==
    IF \E i \in 1..Len(peers) : ~Has(database, peers[i])
    THEN [psk_tuples |-> <<>>, inform |-> 0, genkeys |-> k, raised |-> TRUE]
    ELSE AssignPsks(combinations(peers), 1, PooledKeys(peers, database, 1), 0, k, <<>>)

\* the result: [psk_tuples, inform, genkeys, raised]; database["peers"][p] raises
\* KeyError for a p that is no peer
calculate_psks(peers, database, k) ==
    IF \E i \in 1..Len(peers) : ~Has(database, peers[i])
    THEN [psk_tuples |-> <<>>, inform |-> 0, genkeys |-> k, raised |-> TRUE]
    ELSE AssignPsks(combinations(peers), 1, Reverse(PooledKeys(peers, database, 1)),
                    0, k, <<>>)

-----------------------------------------------------------------------------
(* genconfig *)

\* x in psk_tuple
In(x, psk_tuple) == \E i \in 1..Len(psk_tuple) : psk_tuple[i] = x

\* lines 460-463: the PresharedKey lines of p's section in peer's document
PresharedKeyLines(peer, p, psk_tuples) ==
    LET Mine(x) == In(peer, x) /\ In(p, x)
        mine == SelectSeq(psk_tuples, Mine)
    IN  [i \in 1..Len(mine) |-> mine[i][3]]

\* a mutant of Connectable: the document's own Endpoint is not looked at
Connectable_peer_only(database, peer, p) == Peer(database, p)["Endpoint"] # None

\* line 418: only include peers that can be connected to
Connectable(database, peer, p) ==
    Peer(database, p)["Endpoint"] # None \/ Peer(database, peer)["Endpoint"] # None

RECURSIVE PeerSections(_, _, _, _, _, _, _)
\* lines 406-463: the [Peer] sections of peer's document; iterating an Address
\* that is None raises TypeError (lines 412-415) before the section is written
PeerSections(database, peer, others, i, with_psk, psk_tuples, sections) ==
    IF i > Len(others) THEN [sections |-> sections, raised |-> FALSE]
    ELSE IF Peer(database, others[i])["Address"] = None
    THEN [sections |-> sections, raised |-> TRUE]
    ELSE PeerSections(database, peer, others, i + 1, with_psk, psk_tuples,
             IF Connectable(database, peer, others[i])
             THEN Append(sections,
                         [Name |-> others[i],
                          PresharedKey |->
                              IF with_psk
                              THEN PresharedKeyLines(peer, others[i], psk_tuples)
                              ELSE <<>>])
             ELSE sections)

\* line 406: [i for i in database["peers"] if i != peer]
Others(database, peer) ==
    LET IsOther(n) == n # peer
    IN  SelectSeq(Names(database), IsOther)

RECURSIVE Documents(_, _, _, _, _, _)
\* lines 386-463: one document [Name, Peer] per peer, Peer its [Peer] sections.
\* A peer that is not in the registry (KeyError) or has no Address (TypeError,
\* line 392) ends the run with its document opened and no section in it
Documents(database, peers, i, with_psk, psk_tuples, documents) ==
    IF i > Len(peers) THEN [documents |-> documents, raised |-> FALSE]
    ELSE IF ~Has(database, peers[i])
    THEN [documents |-> Append(documents, [Name |-> peers[i], Peer |-> <<>>]),
          raised |-> TRUE]
    ELSE IF Peer(database, peers[i])["Address"] = None
    THEN [documents |-> Append(documents, [Name |-> peers[i], Peer |-> <<>>]),
          raised |-> TRUE]
    ELSE LET r == PeerSections(database, peers[i], Others(database, peers[i]), 1,
                               with_psk, psk_tuples, <<>>)
             document == [Name |-> peers[i], Peer |-> r.sections]
         IN  IF r.raised
             THEN [documents |-> Append(documents, document), raised |-> TRUE]
             ELSE Documents(database, peers, i + 1, with_psk, psk_tuples,
                            Append(documents, document))

\* lines 367-370: Name is a Python value, None for all peers
Selected(database, Name) ==
    IF Name # None THEN <<Name.s>> ELSE Names(database)

\* the output path is a directory or can be made one (lines 374-382)
genconfig(Name, with_psk) ==
    LET database == read_database(file)
        peers == Selected(database, Name)
        psks == IF with_psk THEN calculate_psks(peers, database, genkeys)
                ELSE [psk_tuples |-> <<>>, inform |-> 0, genkeys |-> genkeys,
                      raised |-> FALSE]
        docs == IF psks.raised THEN [documents |-> <<>>, raised |-> TRUE]
                ELSE Documents(database, peers, 1, with_psk, psks.psk_tuples, <<>>)
    IN  /\ psks.genkeys <= MaxKeys
        /\ last' = Ran("genconfig", Name, with_psk,
                       IF docs.raised THEN "raised" ELSE "ok")
        /\ generated' = [psk_tuples |-> psks.psk_tuples, inform |-> psks.inform,
                         documents |-> docs.documents]
        /\ genkeys' = psks.genkeys
        /\ written' = NotWritten
        /\ UNCHANGED file

-----------------------------------------------------------------------------
(* The inputs the invocations are given *)

NamePool == <<"A", "B", "C", "D", "E", "F">>

\* the i-th peer name
PeerName(i) == <<NamePool[i]>>

\* a CIDR, a host name, a private key and a pre-shared key of the operator's
Cidr == <<"c">>
Host == <<"h">>
OwnKey == <<"p">>
PskX == <<"x">>

\* the keyword arguments of addpeer and updatepeer: None where none is given
Args(given) == [k \in Attrs |-> IF k \in DOMAIN given THEN given[k] ELSE None]

\* Spec: a peer with an Endpoint and SaveConfig, and a peer with its own private
\* key and without an Address
AddArgs ==
    {Args([Address |-> PyList(<<Cidr>>), Endpoint |-> PyStr(Host),
           SaveConfig |-> PyBool(TRUE)]),
     Args([PrivateKey |-> PyStr(OwnKey), SaveConfig |-> PyBool(FALSE)])}

UpdateArgs ==
    {Args([Address |-> PyList(<<Cidr, Cidr>>), ListenPort |-> PyInt(7)])}

\* PskSpec: every peer has an Address, an Endpoint and a private key, and
\* no or one pre-shared key of the operator's
PskAddArgs ==
    {Args([Address |-> PyList(<<Cidr>>), Endpoint |-> PyStr(Host),
           PrivateKey |-> PyStr(OwnKey), PresharedKeys |-> p]) :
        p \in {None, PyStr(PskX)}}

\* MeshSpec: a peer with an Endpoint, one without, and one without an Address
MeshAddArgs ==
    {Args([Address |-> PyList(<<Cidr>>), Endpoint |-> PyStr(Host),
           PrivateKey |-> PyStr(OwnKey)]),
     Args([Address |-> PyList(<<Cidr>>), PrivateKey |-> PyStr(OwnKey)]),
     Args([PrivateKey |-> PyStr(OwnKey)])}

-----------------------------------------------------------------------------
(* The specifications *)

Init ==
    /\ file = [exists |-> FALSE, rows |-> <<>>]
    /\ genkeys = 0
    /\ last = Ran("none", None, FALSE, "ok")
    /\ written = NotWritten
    /\ generated = NothingGenerated

\* Spec: the registry's operations, on MaxPeers names
AddPeer ==
    \E i \in 1..MaxPeers, args \in AddArgs : addpeer(PeerName(i), args)

UpdatePeer ==
    \E i \in 1..MaxPeers, args \in UpdateArgs : updatepeer(PeerName(i), args)

DelPeer == \E i \in 1..MaxPeers : delpeer(PeerName(i))

InitDb == \E with_psk \in BOOLEAN : init(with_psk)

Next == AddPeer \/ UpdatePeer \/ DelPeer \/ InitDb

Spec == Init /\ [][Next]_vars

\* the names the operator of PskSpec and MeshSpec gives: a peer's, or the next new one
MeshNames == {PeerName(i) : i \in 1..Min(MaxMesh, Len(file.rows) + 1)}

GenConfig ==
    \E Name \in {None} \union {PyStr(n) : n \in MeshNames}, with_psk \in BOOLEAN :
        genconfig(Name, with_psk)

\* PskSpec: the PSK inventories, filled by the operator and by init, and genconfig
PskAddPeer == \E Name \in MeshNames, args \in PskAddArgs : addpeer(Name, args)

PskNext == PskAddPeer \/ InitDb \/ GenConfig

PskSpec == Init /\ [][PskNext]_vars

\* MeshSpec: peers with and without an Endpoint, and genconfig
MeshAddPeer == \E Name \in MeshNames, args \in MeshAddArgs : addpeer(Name, args)

MeshNext == MeshAddPeer \/ GenConfig

MeshSpec == Init /\ [][MeshNext]_vars

-----------------------------------------------------------------------------
(* What the claims speak of *)

\* the registry as stored
Stored == read_database(file)

\* the last invocation was genconfig and it ran to its end
Generated(with_psk) ==
    /\ last.op = "genconfig"
    /\ last.with_psk = with_psk
    /\ last.status = "ok"

\* the last invocation was genconfig for all peers and it ran to its end
GeneratedAll(with_psk) == Generated(with_psk) /\ last.Name = None

\* the entries of a PresharedKeys value
Entries(v) ==
    IF v.t = "None" THEN <<>> ELSE IF v.t = "list" THEN v.l ELSE Split(v.s)

\* the pool of the reference: the peers' inventories one after the other
Pool(database, peers) ==
    Flatten([i \in 1..Len(peers) |->
               Entries(Peer(database, peers[i])["PresharedKeys"])])

\* the number of pairs <<a, b>>, a < b <= n, before <<i, j>> in lexicographic order
PairsBefore(n, i, j) ==
    Cardinality({q \in (1..n) \X (1..n) :
                   /\ q[1] < q[2]
                   /\ q[1] < i \/ (q[1] = i /\ q[2] < j)})

\* the k-th 2-combination of 1..n
PairAt(n, k) ==
    CHOOSE q \in (1..n) \X (1..n) :
        q[1] < q[2] /\ PairsBefore(n, q[1], q[2]) = k - 1

\* the keys assigned to the pair {a, b} by psk_tuples
KeysOf(psk_tuples, a, b) ==
    {i \in 1..Len(psk_tuples) :
        {psk_tuples[i][1], psk_tuples[i][2]} = {a, b}}

\* the document of peer name in documents, if any
DocumentsOf(documents, name) ==
    {i \in 1..Len(documents) : documents[i].Name = name}

\* the sections for q in document d
SectionsFor(d, q) == {i \in 1..Len(d.Peer) : d.Peer[i].Name = q}

-----------------------------------------------------------------------------
(* C1 *)

\* C1 (as claimed): after genconfig with PSK mode, for one peer or for all, every
\* [Peer] section for Q in P's document has exactly one PresharedKey line, and
\* its key is the one calculate_psks assigned to the pair {P, Q}.
C1_OnePskLinePerSection ==
    Generated(TRUE) =>
        \A i \in 1..Len(generated.documents) :
            LET d == generated.documents[i]
            IN  \A j \in 1..Len(d.Peer) :
                    /\ Len(d.Peer[j].PresharedKey) = 1
                    /\ \E h \in KeysOf(generated.psk_tuples, d.Name, d.Peer[j].Name) :
                           generated.psk_tuples[h][3] = d.Peer[j].PresharedKey[1]

-----------------------------------------------------------------------------
(* C2 *)

\* C2: after genconfig for all peers with PSK mode on a registry of N peers,
\* calculate_psks has returned exactly N(N-1)/2 assignments, each of two distinct
\* peers of the registry, and every pair of distinct peers is in exactly one.
C2_EveryPairOnce ==
    GeneratedAll(TRUE) =>
        LET peers == Names(Stored)
            N == Len(peers)
            psk_tuples == generated.psk_tuples
        IN  /\ 2 * Len(psk_tuples) = N * (N - 1)
            /\ \A i \in 1..Len(psk_tuples) :
                   /\ Len(psk_tuples[i]) = 3
                   /\ psk_tuples[i][1] # psk_tuples[i][2]
                   /\ Has(Stored, psk_tuples[i][1])
                   /\ Has(Stored, psk_tuples[i][2])
            /\ \A a \in 1..N, b \in 1..N :
                   a # b => Cardinality(KeysOf(psk_tuples, peers[a], peers[b])) = 1

\* C2's case: three peers, three assignments
C2_Witness ==
    /\ GeneratedAll(TRUE)
    /\ Len(Stored) = 3
    /\ Len(generated.psk_tuples) = 3

-----------------------------------------------------------------------------
(* C5 *)

\* no two entries of the pool are the same key
PoolDistinct(pool) ==
    \A i \in 1..Len(pool), j \in 1..Len(pool) : i # j => pool[i] # pool[j]

\* no two assignments carry the same key
KeysDistinct(psk_tuples) ==
    \A i \in 1..Len(psk_tuples), j \in 1..Len(psk_tuples) :
        i # j => psk_tuples[i][3] # psk_tuples[j][3]

\* C5 (as claimed): whatever the inventories hold, calculate_psks assigns no key
\* to two different pairs.
C5_NoKeyTwice == Generated(TRUE) => KeysDistinct(generated.psk_tuples)

\* C5 (amended): when no key occurs twice in the peers' inventories,
\* calculate_psks assigns no key to two different pairs.
C5_NoKeyTwiceOfDistinctPool ==
    (Generated(TRUE) /\ PoolDistinct(Pool(Stored, Names(Stored))))
        => KeysDistinct(generated.psk_tuples)

\* C5's case: three pairs, one key from an inventory and two synthesized
C5_Witness ==
    /\ GeneratedAll(TRUE)
    /\ Len(generated.psk_tuples) = 3
    /\ Len(Pool(Stored, Names(Stored))) = 1
    /\ generated.inform = 2

-----------------------------------------------------------------------------
(* C9 *)

\* C9: calculate_psks gives the k-th 2-combination of the peers the k-th key of
\* the pool, and each pair after the pool's end the next key genkey() returns;
\* inform is max(0, |pairs| - |pool|); nothing is written.
C9_PoolInOrder ==
    Generated(TRUE) =>
        LET peers == Selected(Stored, last.Name)
            n == Len(peers)
            pool == Pool(Stored, peers)
            psk_tuples == generated.psk_tuples
            before == genkeys - generated.inform
        IN  /\ 2 * Len(psk_tuples) = n * (n - 1)
            /\ generated.inform = Max(0, Len(psk_tuples) - Len(pool))
            /\ \A k \in 1..Len(psk_tuples) :
                   /\ psk_tuples[k][1] = peers[PairAt(n, k)[1]]
                   /\ psk_tuples[k][2] = peers[PairAt(n, k)[2]]
                   /\ psk_tuples[k][3] =
                          IF k <= Len(pool) THEN pool[k]
                          ELSE genkey(before + k - Len(pool))
            /\ ~written.called

\* C9's case: three pairs, two different keys in the pool, one key synthesized
C9_Witness ==
    /\ GeneratedAll(TRUE)
    /\ Len(generated.psk_tuples) = 3
    /\ Len(Pool(Stored, Names(Stored))) = 2
    /\ generated.psk_tuples[1][3] # generated.psk_tuples[2][3]
    /\ generated.inform = 1

-----------------------------------------------------------------------------
(* C3 *)

EndpointSet(database, name) == Peer(database, name)["Endpoint"] # None

\* document d has a [Peer] section for q
HasSection(d, q) == SectionsFor(d, q) # {}

\* C3: after a genconfig that ran to its end, P's document has a section for Q
\* if and only if Q is a peer of the registry other than P and Q or P has an
\* Endpoint; with all documents generated, B is in A's document if and only if
\* A is in B's, and two peers without an Endpoint are in neither's.
C3_SectionIffConnectable ==
    (last.op = "genconfig" /\ last.status = "ok") =>
        LET documents == generated.documents
            peers == Names(Stored)
            Doc(name) == documents[CHOOSE i \in DocumentsOf(documents, name) : TRUE]
        IN  /\ \A i \in 1..Len(documents) :
                   LET P == documents[i].Name
                   IN  /\ \A j \in 1..Len(documents[i].Peer) :
                              Has(Stored, documents[i].Peer[j].Name)
                       /\ \A q \in 1..Len(peers) :
                              HasSection(documents[i], peers[q]) <=>
                                  /\ peers[q] # P
                                  /\ \/ EndpointSet(Stored, peers[q])
                                     \/ EndpointSet(Stored, P)
            /\ last.Name = None =>
                   /\ \A a \in 1..Len(peers) :
                          Cardinality(DocumentsOf(documents, peers[a])) = 1
                   /\ \A a \in 1..Len(peers), b \in 1..Len(peers) :
                          /\ HasSection(Doc(peers[a]), peers[b]) <=>
                                 HasSection(Doc(peers[b]), peers[a])
                          /\ (/\ ~EndpointSet(Stored, peers[a])
                              /\ ~EndpointSet(Stored, peers[b]))
                                 => ~HasSection(Doc(peers[a]), peers[b])

\* C3's case: A has an Endpoint, B and C have none; A's document has two
\* sections, B's and C's have the one for A
C3_Witness ==
    /\ last.op = "genconfig" /\ last.status = "ok" /\ last.Name = None
    /\ Len(Stored) = 3
    /\ EndpointSet(Stored, PeerName(1))
    /\ ~EndpointSet(Stored, PeerName(2))
    /\ ~EndpointSet(Stored, PeerName(3))
    /\ Len(generated.documents) = 3
    /\ Len(generated.documents[1].Peer) = 2
    /\ Len(generated.documents[2].Peer) = 1
    /\ generated.documents[2].Peer[1].Name = PeerName(1)
    /\ Len(generated.documents[3].Peer) = 1

-----------------------------------------------------------------------------
(* C4 *)

\* the number of entries of the i-th peer's PresharedKeys
Held(database, i) == Len(Entries(database[i].attrs["PresharedKeys"]))

\* the peer at enumerate's index i - 1 holds N - 1 - (i - 1) entries
ExactInventories(database) ==
    \A i \in 1..Len(database) : Held(database, i) = Len(database) - i

\* no peer holds more entries than that
NoExcess(database) ==
    \A i \in 1..Len(database) : Held(database, i) <= Len(database) - i

\* init with PSK provisioning wrote the registry
InitWithPsk(l) == l.op = "init" /\ l.with_psk /\ l.status = "ok"

\* C4 (as claimed): after init with PSK provisioning, whatever the inventories
\* held before, the peer at index i holds exactly N - 1 - i entries.
C4_ExactAfterInit == InitWithPsk(last) => ExactInventories(Stored)

\* C4 (amended): when before the run no peer at index i holds more than
\* N - 1 - i entries, after init with PSK provisioning every peer at index i
\* holds exactly N - 1 - i entries.
C4_ExactAfterInitWithoutExcess ==
    [][(InitWithPsk(last') /\ NoExcess(read_database(file)))
           => ExactInventories(read_database(file'))]_vars

\* C4's case: three peers, the first held the operator's key and got one more
C4_Witness ==
    /\ InitWithPsk(last)
    /\ Len(Stored) = 3
    /\ ExactInventories(Stored)
    /\ Entries(Stored[1].attrs["PresharedKeys"])[1] = PskX
    /\ genkeys = 2

-----------------------------------------------------------------------------
(* C10 *)

\* C10: a registry of N peers holds exactly N - 1 - i entries at index i;
\* addpeer appends a peer without PresharedKeys and init with PSK provisioning
\* runs. Then calculate_psks for all peers gives every pair of the old peers the
\* key it gave it before the peer was added, and synthesizes no key.
C10_GrowthKeepsKeys ==
    [][LET database == read_database(file)
           old == SubSeq(database, 1, Len(database) - 1)
           grown == read_database(file')
           before == calculate_psks(Names(old), old, genkeys)
           after == calculate_psks(Names(grown), grown, genkeys')
       IN  (/\ last.op = "addpeer" /\ last.status = "ok"
            /\ InitWithPsk(last')
            /\ ExactInventories(old)
            /\ database[Len(database)].attrs["PresharedKeys"] = None)
               => /\ after.inform = 0
                  /\ after.genkeys = genkeys'
                  /\ \A k \in 1..Len(before.psk_tuples) :
                         \E j \in KeysOf(after.psk_tuples, before.psk_tuples[k][1],
                                         before.psk_tuples[k][2]) :
                             after.psk_tuples[j][3] = before.psk_tuples[k][3]]_vars

\* C10's case: A held k1 for the pair {A, B}; C was added and init gave A the
\* key k3 and B the key k2
C10_Witness ==
    /\ InitWithPsk(last)
    /\ Len(Stored) = 3
    /\ Entries(Stored[1].attrs["PresharedKeys"]) = <<genkey(1), genkey(3)>>
    /\ Entries(Stored[2].attrs["PresharedKeys"]) = <<genkey(2)>>
    /\ Entries(Stored[3].attrs["PresharedKeys"]) = <<>>

-----------------------------------------------------------------------------
(* C6 *)

\* C6 (as claimed): the registry an operation hands to write_database is the
\* registry read_database returns from the file written: the same peers in the
\* same order, the same absent fields, the same typed values.
C6_LoadOfSave == written.called => read_database(file) = written.data

-----------------------------------------------------------------------------
(* C7 *)

\* every peer has a ListenPort and a PrivateKey and, with PSK provisioning,
\* the entries for the peers after it
AllSet(database, with_psk) ==
    \A i \in 1..Len(database) :
        /\ database[i].attrs["ListenPort"] # None
        /\ database[i].attrs["PrivateKey"] # None
        /\ with_psk => Held(database, i) >= Len(database) - i

\* C7: init on a stored registry in which every peer has its ListenPort,
\* PrivateKey and PSKs leaves the file as it is and generates no key; so does an
\* init that follows an init with the same with_psk.
C7_InitIdempotent ==
    [][(last'.op = "init" /\ file.exists
        /\ \/ AllSet(read_database(file), last'.with_psk)
           \/ (last.op = "init" /\ last.with_psk = last'.with_psk))
           => (file' = file /\ genkeys' = genkeys)]_vars

\* C7's case: init with PSK provisioning has filled two peers
C7_Witness ==
    /\ InitWithPsk(last)
    /\ Len(Stored) = 2
    /\ AllSet(Stored, TRUE)
    /\ genkeys = 3

-----------------------------------------------------------------------------
(* C8 *)

\* C8: addpeer of a Name in the registry, updatepeer and delpeer of a Name not in
\* it, and init on a registry with a peer without Address leave the file as it
\* is and do not call write_database.
C8_FailureWritesNothing ==
    [][LET database == read_database(file)
       IN  (\/ last'.op = "addpeer" /\ Has(database, last'.Name.s)
            \/ last'.op \in {"updatepeer", "delpeer"} /\ ~Has(database, last'.Name.s)
            \/ /\ last'.op = "init" /\ file.exists
               /\ \E i \in 1..Len(database) : database[i].attrs["Address"].t = "None")
               => (file' = file /\ ~written'.called)]_vars

\* C8's case: init has stopped at a peer without Address, and the peers still
\* have no ListenPort
C8_Witness ==
    /\ last.op = "init" /\ last.status = "exit"
    /\ Len(Stored) = 2
    /\ \A i \in 1..Len(Stored) : Stored[i].attrs["ListenPort"] = None

====
